---- MODULE Spec2Model ----
(***************************************************************************)
(* Hangar scheduling: the mixed-integer model of src/model.py              *)
(* (build_model, solve_and_report), the tables and parameters of           *)
(* src/csvimport.py, the rejection-penalty sweep of                        *)
(* src/Sensitivity/Rejection/main_rej_pen.py, the analyzer of              *)
(* src/analyze_solution.py and collect_sensitivity of                      *)
(* src/Sensitivity/Rejection/analyze_rejection_sensitivity.py, and         *)
(* compute_roll_shifts of                                                  *)
(* src/Sensitivity/Time/analyze_epst_sensitivity.py.                       *)
(*                                                                         *)
(* Units.  Lengths, times and penalties are integers.  One time unit is    *)
(* epsilon_t (0.1 h in the scripts).  The objective is kept in units of    *)
(* 1/ObjScale; the position weight epsilon_p is a field of the hangar      *)
(* record, in those units per unit of length.                              *)
(*                                                                         *)
(* The solver is external (Gurobi).  m.optimize() is modelled by what it   *)
(* guarantees: status OPTIMAL with an assignment that satisfies every      *)
(* constraint and minimises the objective; a limit status (TIME_LIMIT,     *)
(* INTERRUPTED) with any assignment that satisfies every constraint (the   *)
(* incumbent) or with none; status INFEASIBLE or INF_OR_UNBD when no       *)
(* assignment satisfies the constraints.  The state keeps the values       *)
(* solve_and_report reads (X, Y, Roll_in, Roll_out, D_Arr, D_Dep, Accept   *)
(* per aircraft); the pairwise binaries Right, Above, OutIn, InIn, OutOut, *)
(* InOut are quantified inside the constraint system (PairOK).             *)
(*                                                                         *)
(* Spec is the sweep (main() of main_rej_pen.py followed, per factor, by   *)
(* the analyzer); SpecExample is the same program on the instances of      *)
(* InitExample (the position weight of the scripts against one time unit   *)
(* of delay); SpecAnalyze is analyze_solution_csv over bounded files of    *)
(* rows; SpecCollect is collect_sensitivity and SpecShifts is              *)
(* compute_roll_shifts, each over the directories of solution files.       *)
(***************************************************************************)
EXTENDS Integers, Sequences, FiniteSets, TLC

VARIABLES
    pc,          \* position of main(): "start", "build", "solve", "analyze",
                 \* "done", "exit" (exit(0) in check_model_status), "error";
                 \* of the analysis scripts: "collect", "collected",
                 \* "analyze_file", "analyzed", "shift", "shifted", "error"
    hangar,      \* [HW, HL, Buffer, epsilon_p]
    t1_map,      \* T1.csv: model id -> row (the model catalogue)
    t2,          \* T2.csv: the rows of the current aircraft, in file order
    t3,          \* T3.csv: the rows of the future aircraft, in file order
    c,           \* list of current aircraft ids
    f,           \* list of future aircraft ids
    params,      \* the parameter dictionaries (P_Rej is the scaled one)
    base_P_Rej,  \* main(): copy of the baseline rejection penalties
    fidx,        \* index into rej_factors of the factor being processed
    bigm,        \* [M_T, M_X, M_Y] returned by build_model
    status,      \* m.status after m.optimize()
    sol,         \* the values of the per-aircraft variables after optimize
    report,      \* rows of the report written by solve_and_report
    metrics,     \* analyze_solution_csv of the last report
    rates,       \* per processed factor: the acceptance_rate of its report
    raised,      \* the exception that ended main(), if any
    stdout,      \* the lines check_model_status printed for the last solve
    files,       \* collect_sensitivity: the solution files the pattern matches
    summary,     \* collect_sensitivity: the list it returns
    shifts       \* compute_roll_shifts: what it returns

vars == <<pc, hangar, t1_map, t2, t3, c, f, params, base_P_Rej, fidx, bigm,
          status, sol, report, metrics, rates, raised, stdout, files, summary,
          shifts>>

----------------------------------------------------------------------------
(* Bounds of the model *)

\* Largest value of a time variable (Roll_in, Roll_out, D_Arr, D_Dep) in the
\* assignments the solver returns (the variables have no upper bound).
MaxTime == 3

----------------------------------------------------------------------------
(* Program constants *)

\* epsilon_t, in time units of epsilon_t itself.
epsilon_t == 1

\* epsilon_p = 0.001: the objective is kept in units of 1/ObjScale.
ObjScale == 1000

\* The sweep factors (those the monotonicity scenario names, out of the
\* script's list).
rej_factors == <<0, 1, 3>>

----------------------------------------------------------------------------
(* Helpers *)

a == c \o f

Range(s) == {s[i] : i \in 1..Len(s)}

\* ord_idx = {ai: idx+1 for idx, ai in enumerate(a)}
ord_idx(ai) == CHOOSE i \in 1..Len(a) : a[i] = ai

RECURSIVE SumSeq(_)
SumSeq(s) == IF s = <<>> THEN 0 ELSE Head(s) + SumSeq(Tail(s))

RECURSIVE MaxSeq(_)
MaxSeq(s) == IF Len(s) = 1 THEN Head(s)
             ELSE LET m == MaxSeq(Tail(s)) IN IF Head(s) > m THEN Head(s) ELSE m

\* gp.quicksum(terms)
quicksum(terms) == SumSeq(terms)

----------------------------------------------------------------------------
(* Instances: the tables T1 (model catalogue), T2 (current aircraft) and T3
   (future aircraft) as read_indexed_csv returns them.  A row maps its column
   names to its cells; numeric cells are numbers, the cell of column M_ID is
   its sequence of digits. *)

\* Hangar of the sweeps' shape in coarse units, and the 100 x 100 hangar with
\* Buffer 5 of the concrete scenario in units of 5 m.  epsilon_p is the weight
\* of one unit of X + Y in the objective, in units of 1/ObjScale.
SmallHangar == [HW |-> 5, HL |-> 5, Buffer |-> 1, epsilon_p |-> 1]
ScenarioHangar == [HW |-> 20, HL |-> 20, Buffer |-> 1, epsilon_p |-> 1]

\* The parameters of main(): hangar 150 m x 100 m, Buffer 5 m, in units of
\* 5 m; time in units of epsilon_t = 0.1 h.  With penalty rates per hour, a
\* rate of 1 costs 0.1 per unit of delay and epsilon_p = 0.001 per metre costs
\* 0.005 per unit of X + Y: 50 where a unit of delay at rate 1 is ObjScale.
\* A rejection penalty of 1 is P_Rej = 10 in these units.
ExampleHangar == [HW |-> 30, HL |-> 20, Buffer |-> 1, epsilon_p |-> 50]

\* T1: a 1 x 1 model, the 10 m x 10 m model of the scenario, and a model wider
\* than the small hangar's interior (4 > 5 - 2 * 1).
T1 ==
    (<<1>> :> [W |-> 1, L |-> 1]) @@ (<<2>> :> [W |-> 2, L |-> 2])
        @@ (<<3>> :> [W |-> 4, L |-> 1])

\* T1 without its column L.
T1_NoL == [k \in DOMAIN T1 |-> [W |-> T1[k].W]]

\* Rows of T2: two aircraft stacked in one column, one that touches the wall
\* (x = 0 < Buffer), and one beside the column.
CurrentRows ==
    {[M_ID |-> <<1>>, ETD |-> 2, ServT |-> 2, P_Dep |-> 1, Init_X |-> 1, Init_Y |-> 1],
     [M_ID |-> <<1>>, ETD |-> 2, ServT |-> 2, P_Dep |-> 0, Init_X |-> 1, Init_Y |-> 3],
     [M_ID |-> <<1>>, ETD |-> 0, ServT |-> 0, P_Dep |-> 1, Init_X |-> 0, Init_Y |-> 1],
     [M_ID |-> <<1>>, ETD |-> 1, ServT |-> 1, P_Dep |-> 1, Init_X |-> 3, Init_Y |-> 3]}

\* Rows of T3; the sixth is of the model that does not fit, the last arrives
\* late enough for an earlier aircraft to be gone before it comes.
FutureTable ==
    <<[M_ID |-> <<1>>, ETA |-> 0, ETD |-> 0, ServT |-> 0, P_Rej |-> 1, P_Arr |-> 0, P_Dep |-> 0],
      [M_ID |-> <<1>>, ETA |-> 0, ETD |-> 1, ServT |-> 1, P_Rej |-> 2, P_Arr |-> 1, P_Dep |-> 1],
      [M_ID |-> <<1>>, ETA |-> 1, ETD |-> 1, ServT |-> 1, P_Rej |-> 1, P_Arr |-> 0, P_Dep |-> 1],
      [M_ID |-> <<1>>, ETA |-> 1, ETD |-> 3, ServT |-> 0, P_Rej |-> 0, P_Arr |-> 1, P_Dep |-> 0],
      [M_ID |-> <<1>>, ETA |-> 0, ETD |-> 2, ServT |-> 2, P_Rej |-> 3, P_Arr |-> 1, P_Dep |-> 1],
      [M_ID |-> <<3>>, ETA |-> 0, ETD |-> 1, ServT |-> 1, P_Rej |-> 1, P_Arr |-> 1, P_Dep |-> 1],
      [M_ID |-> <<1>>, ETA |-> 2, ETD |-> 2, ServT |-> 0, P_Rej |-> 1, P_Arr |-> 1, P_Dep |-> 1]>>

FutureRows == Range(FutureTable)

\* The concrete scenario: one current aircraft 10 x 10 at (5,5) with service
\* duration 0; one request 10 x 10, arrival 0, penalties 1000 / 1 / 1, any
\* service duration.
ScenarioCurrent ==
    [M_ID |-> <<2>>, ETD |-> 0, ServT |-> 0, P_Dep |-> 1, Init_X |-> 1, Init_Y |-> 1]

ScenarioFuture(servT) ==
    [M_ID |-> <<2>>, ETA |-> 0, ETD |-> servT, ServT |-> servT,
     P_Rej |-> 1000, P_Arr |-> 1, P_Dep |-> 1]

\* The pairs of rows of T3 that make the instances with two requests.
FuturePairs == {<<2, 4>>, <<5, 3>>}

\* Two current aircraft at one place, and a request.
OverlapFleet ==
    LET r == CHOOSE x \in CurrentRows : x.Init_X = 1 /\ x.Init_Y = 1
    IN <<<<r, r>>, <<FutureTable[2]>>>>

\* The instances <<rows of T2, rows of T3>>: empty tables, one aircraft, and
\* every kind of pair; two overlapping current aircraft with a request.
Fleets ==
    {<<cr, fr>> : cr \in {<<>>} \cup {<<r>> : r \in CurrentRows},
                  fr \in {<<>>} \cup {<<r>> : r \in FutureRows}}
    \cup {<<cr, <<>>>> : cr \in [1..2 -> CurrentRows]}
    \cup {<<<<>>, <<FutureTable[p[1]], FutureTable[p[2]]>>>> :
             p \in FuturePairs}
    \cup {OverlapFleet}

\* Rows that refer to a model id that T1 does not have, a row whose model id
\* is written with a leading zero, and rows of tables that lack columns.
CurrentUnknownModel ==
    [M_ID |-> <<9>>, ETD |-> 1, ServT |-> 1, P_Dep |-> 1, Init_X |-> 1, Init_Y |-> 1]

FutureUnknownModel ==
    [M_ID |-> <<9>>, ETA |-> 0, ETD |-> 1, ServT |-> 1, P_Rej |-> 2, P_Arr |-> 1, P_Dep |-> 1]

CurrentLeadingZero ==
    [M_ID |-> <<0, 1>>, ETD |-> 1, ServT |-> 1, P_Dep |-> 1, Init_X |-> 2, Init_Y |-> 2]

\* T2 without the columns ETD and Init_X; T3 without the columns P_Rej and ETA.
CurrentShortRow == [M_ID |-> <<1>>, ServT |-> 1, P_Dep |-> 1, Init_Y |-> 2]

FutureShortRow == [M_ID |-> <<1>>, ETD |-> 2, ServT |-> 1, P_Arr |-> 1, P_Dep |-> 1]

\* The instances <<T1, rows of T2, rows of T3>> with these rows.
FaultyInstances ==
    {<<T1, <<CurrentUnknownModel>>, <<>>>>,
     <<T1, <<CHOOSE r \in CurrentRows : r.Init_X = 3>>, <<FutureUnknownModel>>>>,
     <<T1, <<CurrentUnknownModel>>, <<FutureUnknownModel>>>>,
     <<T1, <<CurrentLeadingZero>>, <<>>>>,
     <<T1, <<CurrentShortRow>>, <<>>>>,
     <<T1, <<>>, <<FutureShortRow>>>>,
     <<T1_NoL, <<CHOOSE r \in CurrentRows : r.Init_X = 3>>, <<FutureTable[2]>>>>}

Instances == {<<T1, fl[1], fl[2]>> : fl \in Fleets} \cup FaultyInstances

\* int(cell) of a cell of digits, and str(n).
RECURSIVE int(_)
int(cell) ==
    IF Len(cell) = 1 THEN cell[1]
    ELSE 10 * int(SubSeq(cell, 1, Len(cell) - 1)) + cell[Len(cell)]

RECURSIVE str(_)
str(n) == IF n < 10 THEN <<n>> ELSE Append(str(n \div 10), n % 10)

\* dict.get(key, 0.0)
Get(d, key) == IF key \in DOMAIN d THEN d[key] ELSE 0

\* build_sets: c = list(t2_keys), f = list(t3_keys), M_ID[ai] = int(cell); the
\* keys (aircraft ids) are 1..n, the rows of T2 first.
build_sets(crows, frows) ==
    [c    |-> [i \in 1..Len(crows) |-> i],
     f    |-> [i \in 1..Len(frows) |-> Len(crows) + i],
     M_ID |-> [i \in 1..(Len(crows) + Len(frows)) |->
                  IF i <= Len(crows) THEN int(crows[i].M_ID)
                                     ELSE int(frows[i - Len(crows)].M_ID)]]

\* The check for an empty instance left out.
NoAircraft_Never(al) == FALSE

\* if not a
NoAircraft(al) == al = <<>>

\* The test of the model id left out.
ModelKnown_Always(t1m, mid) == TRUE

\* mid in t1_map
ModelKnown(t1m, mid) == mid \in DOMAIN t1m

\* The aircraft of the list al for which build_parameters raises KeyError: the
\* first one, in the order of al, whose model id is not in T1.
UnknownModel(t1m, al, M_ID) ==
    LET bad == {i \in 1..Len(al) : ~ModelKnown(t1m, str(M_ID[al[i]]))}
    IN IF bad = {} THEN {} ELSE {al[CHOOSE i \in bad : \A j \in bad : i <= j]}

\* build_parameters when it returns: one dictionary per column, keyed by
\* aircraft id.  W and L have an entry for every aircraft whose model the
\* first loop found in T1.
build_parameters(t1m, crows, frows, cl, fl, M_ID) ==
    LET al == cl \o fl
        found == {ai \in Range(al) : str(M_ID[ai]) \in DOMAIN t1m}
        t2row(ci) == crows[ci]
        t3row(fi) == frows[fi - Len(cl)]
        row(ai) == IF ai \in Range(cl) THEN t2row(ai) ELSE t3row(ai)
    IN [W      |-> [ai \in found |-> Get(t1m[str(M_ID[ai])], "W")],
        L      |-> [ai \in found |-> Get(t1m[str(M_ID[ai])], "L")],
        ETA    |-> [ai \in Range(fl) |-> Get(t3row(ai), "ETA")],
        ETD    |-> [ai \in Range(al) |-> Get(row(ai), "ETD")],
        ServT  |-> [ai \in Range(al) |-> Get(row(ai), "ServT")],
        P_Rej  |-> [ai \in Range(fl) |-> Get(t3row(ai), "P_Rej")],
        P_Arr  |-> [ai \in Range(fl) |-> Get(t3row(ai), "P_Arr")],
        P_Dep  |-> [ai \in Range(al) |-> Get(row(ai), "P_Dep")],
        Is_VIP |-> [ai \in Range(fl) |-> Get(t3row(ai), "Is_VIP")],
        X_init |-> [ai \in Range(cl) |-> Get(t2row(ai), "Init_X")],
        Y_init |-> [ai \in Range(cl) |-> Get(t2row(ai), "Init_Y")]]

IsScenario ==
    /\ hangar = ScenarioHangar
    /\ Len(c) = 1 /\ Len(f) = 1

NoParams == <<>>
NoSol == <<>>
NoMetrics == [n_total |-> 0]
NoError == [type |-> "none"]
NoShifts == <<>>

\* An instance in the hangar of main(): a current aircraft 100 m x 85 m at
\* (5, 5), served at 0.2 h and due out at 0.3 h, and a request 35 m x 85 m
\* that arrives at 0.2 h, is due out at 0.3 h and needs no service; all
\* penalty rates 1.  Beside the current aircraft the request fits only at
\* x = 110 m.
T1_Example == (<<1>> :> [W |-> 20, L |-> 17]) @@ (<<2>> :> [W |-> 7, L |-> 17])

ExampleCurrent ==
    [M_ID |-> <<1>>, ETD |-> 3, ServT |-> 2, P_Dep |-> 1, Init_X |-> 1, Init_Y |-> 1]

ExampleFuture ==
    [M_ID |-> <<2>>, ETA |-> 2, ETD |-> 3, ServT |-> 0, P_Rej |-> 10, P_Arr |-> 1, P_Dep |-> 1]

\* The state of main() before it reads the tables.
InitMain ==
    /\ pc = "start"
    /\ c = <<>>
    /\ f = <<>>
    /\ params = NoParams
    /\ base_P_Rej = <<>>
    /\ fidx = 1
    /\ bigm = [M_T |-> 0, M_X |-> 0, M_Y |-> 0]
    /\ status = "LOADED"
    /\ sol = NoSol
    /\ report = <<>>
    /\ metrics = NoMetrics
    /\ rates = <<>>
    /\ raised = NoError
    /\ stdout = <<>>

Init ==
    /\ \/ \E inst \in Instances :
            /\ hangar = SmallHangar
            /\ t1_map = inst[1]
            /\ t2 = inst[2]
            /\ t3 = inst[3]
       \/ \E servT \in 0..2 :
            /\ hangar = ScenarioHangar
            /\ t1_map = T1
            /\ t2 = <<ScenarioCurrent>>
            /\ t3 = <<ScenarioFuture(servT)>>
    /\ InitMain
    /\ files = <<>>
    /\ summary = <<>>
    /\ shifts = NoShifts

\* main() with its own hangar and the example instance, the request alone, or
\* the current aircraft alone.
InitExample ==
    /\ hangar = ExampleHangar
    /\ t1_map = T1_Example
    /\ \E inst \in {<<<<ExampleCurrent>>, <<ExampleFuture>>>>,
                     <<<<>>, <<ExampleFuture>>>>,
                     <<<<ExampleCurrent>>, <<>>>>} :
          t2 = inst[1] /\ t3 = inst[2]
    /\ InitMain
    /\ files = <<>>
    /\ summary = <<>>
    /\ shifts = NoShifts

----------------------------------------------------------------------------
(* build_model: big-M values, variable bounds, constraints, objective.
   A constraint eNN takes the ids it is indexed by, the values of the
   per-aircraft variables of those aircraft (records with fields X, Y,
   Roll_in, Roll_out, D_Arr, D_Dep, Accept) and the binaries it mentions. *)

IsFuture(ai) == ai \in Range(f)
IsCurrent(ai) == ai \in Range(c)

\* max_eta = max(ETA.values()) if ETA else 0.0
max_eta == IF f = <<>> THEN 0 ELSE MaxSeq([i \in 1..Len(f) |-> params.ETA[f[i]]])

\* M_T = max_eta + sum(ServT[i] for i in a)
M_T_of == max_eta + SumSeq([i \in 1..Len(a) |-> params.ServT[a[i]]])

BigM == [M_T |-> M_T_of, M_X |-> hangar.HW, M_Y |-> hangar.HL]

M_T == bigm.M_T
M_X == bigm.M_X
M_Y == bigm.M_Y
Buffer == hangar.Buffer
epsilon_p == hangar.epsilon_p

\* e02 over the position variables only.
e02_PositionOnly(fi, v) ==
    v.X + v.Y <= (M_X + M_Y + 4 * M_T) * v.Accept

\* e02 without the factor Accept on its right-hand side.
e02_NoAccept(fi, v) ==
    v.X + v.Y + v.Roll_in + v.Roll_out + v.D_Arr + v.D_Dep
        <= (M_X + M_Y + 4 * M_T)

e02(fi, v) ==
    v.X + v.Y + v.Roll_in + v.Roll_out + v.D_Arr + v.D_Dep
        <= (M_X + M_Y + 4 * M_T) * v.Accept

e03(fi, v) == v.Roll_in >= params.ETA[fi] * v.Accept

\* e04 with the service duration left out.
e04_NoService(ai, v) == v.Roll_out - v.Roll_in >= 0

e04(ai, v) == v.Roll_out - v.Roll_in >= params.ServT[ai] * v.Accept

e05(fi, v) == v.D_Arr >= v.Roll_in - params.ETA[fi]

e06(ai, v) == v.D_Dep >= v.Roll_out - params.ETD[ai]

e07(fi, v) == v.X >= Buffer * v.Accept

e08(fi, v) == v.X + params.W[fi] <= hangar.HW - Buffer + M_X * (1 - v.Accept)

e09(fi, v) == v.Y >= Buffer * v.Accept

e10(fi, v) == v.Y + params.L[fi] <= hangar.HL - Buffer + M_Y * (1 - v.Accept)

e11(ai, bi, va, vb, Right_ab) ==
    vb.X + params.W[bi] + Buffer <= va.X + M_X * (1 - Right_ab)

e12(ai, bi, va, vb, Above_ab) ==
    vb.Y + params.L[bi] + Buffer <= va.Y + M_Y * (1 - Above_ab)

\* e13 added only for pairs with a future aircraft.
e13_FutureOnly(ai, bi, va, vb, Right_ba, Right_ab, Above_ba, Above_ab, OutIn_ab, OutIn_ba) ==
    (IsFuture(ai) \/ IsFuture(bi)) =>
        Right_ba + Right_ab + Above_ba + Above_ab + OutIn_ab + OutIn_ba
            >= va.Accept + vb.Accept - 1

\* e13 asking for a separation only when a third aircraft were accepted.
e13_Slack(ai, bi, va, vb, Right_ba, Right_ab, Above_ba, Above_ab, OutIn_ab, OutIn_ba) ==
    Right_ba + Right_ab + Above_ba + Above_ab + OutIn_ab + OutIn_ba
        >= va.Accept + vb.Accept - 2

\* added for ord_idx[ai] < ord_idx[bi]
e13(ai, bi, va, vb, Right_ba, Right_ab, Above_ba, Above_ab, OutIn_ab, OutIn_ba) ==
    Right_ba + Right_ab + Above_ba + Above_ab + OutIn_ab + OutIn_ba
        >= va.Accept + vb.Accept - 1

\* e14 relaxed by M_T whatever the value of OutIn.
e14_Unlinked(ai, bi, va, vb, OutIn_ab) ==
    va.Roll_out + epsilon_t <= vb.Roll_in + M_T

e14(ai, bi, va, vb, OutIn_ab) ==
    va.Roll_out + epsilon_t <= vb.Roll_in + M_T * (1 - OutIn_ab)

\* added for fi, gi both future
e15(fi, gi, vf, vg, InIn_fg) ==
    vg.Roll_in >= vf.Roll_in + epsilon_t - M_T * (1 - InIn_fg)
                    - M_T * (2 - vf.Accept - vg.Accept)

e16(fi, gi, vf, vg, InIn_fg) ==
    vf.Roll_in >= vg.Roll_in + epsilon_t - M_T * InIn_fg
                    - M_T * (2 - vf.Accept - vg.Accept)

\* added for ord_idx[ai] < ord_idx[bi]
e17(ai, bi, va, vb, OutOut_ab) ==
    vb.Roll_out >= va.Roll_out + epsilon_t - M_T * (1 - OutOut_ab)
                    - M_T * (2 - va.Accept - vb.Accept)

\* e18 switched off also when both aircraft are accepted.
e18_Ungated(ai, bi, va, vb, OutOut_ab) ==
    va.Roll_out >= vb.Roll_out + epsilon_t - M_T * OutOut_ab
                    - M_T * (3 - va.Accept - vb.Accept)

e18(ai, bi, va, vb, OutOut_ab) ==
    va.Roll_out >= vb.Roll_out + epsilon_t - M_T * OutOut_ab
                    - M_T * (2 - va.Accept - vb.Accept)

\* added when ai or bi is future
e19(ai, bi, va, vb, InOut_ab) ==
    vb.Roll_out >= va.Roll_in + epsilon_t - M_T * (1 - InOut_ab)
                    - M_T * (2 - va.Accept - vb.Accept)

e20(ai, bi, va, vb, InOut_ab) ==
    va.Roll_in >= vb.Roll_out + epsilon_t - M_T * InOut_ab
                    - M_T * (2 - va.Accept - vb.Accept)

\* e21 relaxed once more by M_T.
e21_Relaxed(ai, bi, va, vb, Above_ba, Right_ab, Right_ba, InIn_ab) ==
    va.Roll_out >= vb.Roll_out + epsilon_t
        - M_T * (1 + (1 - Above_ba) + Right_ab + Right_ba + (1 - InIn_ab))

e21(ai, bi, va, vb, Above_ba, Right_ab, Right_ba, InIn_ab) ==
    va.Roll_out >= vb.Roll_out + epsilon_t
        - M_T * ((1 - Above_ba) + Right_ab + Right_ba + (1 - InIn_ab))

\* added when ai or bi is future
e22(ai, bi, va, vb, Above_ba, Right_ab, Right_ba, InIn_ab) ==
    va.Roll_in >= vb.Roll_out + epsilon_t
        - M_T * ((1 - Above_ba) + Right_ab + Right_ba + InIn_ab)

\* The initial conditions without the bounds on Roll_in.
InitialConditions_FreeRollIn(ci, v) ==
    /\ v.Accept = 1
    /\ v.X = params.X_init[ci]
    /\ v.Y = params.Y_init[ci]

\* Initial conditions 2.23-2.26: lb = ub on Accept, X, Y, Roll_in of a current aircraft.
InitialConditions(ci, v) ==
    /\ v.Accept = 1
    /\ v.X = params.X_init[ci]
    /\ v.Y = params.Y_init[ci]
    /\ v.Roll_in = 0

\* Bounds of InIn[ai, bi] as the variable is created.
InInBounds_Free(ai, bi) == {0, 1}

\* Bounds of InIn[ai, bi] after the fixing loop (2.27-2.29).
InInBounds(ai, bi) ==
    IF IsCurrent(ai) /\ IsFuture(bi) THEN {1}
    ELSE IF IsFuture(ai) /\ IsCurrent(bi) THEN {0}
    ELSE IF IsCurrent(ai) /\ IsCurrent(bi) THEN {1}
    ELSE {0, 1}

\* Constraints that mention one aircraft only.
PositionOK(ai, v) ==
    IsFuture(ai) => e07(ai, v) /\ e08(ai, v) /\ e09(ai, v) /\ e10(ai, v)

\* D_Arr is created for future aircraft only; the field is 0 for a current one.
TimeOK(ai, v) ==
    /\ e04(ai, v)
    /\ e06(ai, v)
    /\ IF IsFuture(ai) THEN e03(ai, v) /\ e05(ai, v) ELSE v.D_Arr = 0

AircraftOK(ai, v) ==
    /\ PositionOK(ai, v)
    /\ IF IsFuture(ai) THEN e02(ai, v) ELSE InitialConditions(ai, v)
    /\ TimeOK(ai, v)

\* The values of all variables of one aircraft that extend placement p (its X,
\* Y, Roll_in, Roll_out, Accept) and satisfy the aircraft's own constraints.
\* D_Arr exists for future aircraft only (the report writes 0 for a current
\* one).
AircraftValues(ai, p) ==
    {v \in {[X |-> p.X, Y |-> p.Y, Roll_in |-> p.Roll_in, Roll_out |-> p.Roll_out,
             D_Arr |-> d[1], D_Dep |-> d[2], Accept |-> p.Accept] :
                d \in (0..MaxTime) \X (0..MaxTime)} :
        AircraftOK(ai, v)}

\* Values of X, Y, Roll_in, Roll_out, Accept of one aircraft that some delays
\* extend to values satisfying the aircraft's own constraints.  X and Y have
\* lower bound 0.  Positions are sieved first, by the constraints on X, Y and
\* Accept with the time variables at their lower bound 0, then the times.
PlacementValues(ai) ==
    LET AtZero(p) == [X |-> p.X, Y |-> p.Y, Roll_in |-> 0, Roll_out |-> 0,
                      D_Arr |-> 0, D_Dep |-> 0, Accept |-> p.Accept]
        pos == {p \in [X : 0..hangar.HW, Y : 0..hangar.HL, Accept : 0..1] :
                  /\ PositionOK(ai, p)
                  /\ IF IsFuture(ai) THEN e02(ai, AtZero(p))
                                     ELSE InitialConditions(ai, AtZero(p))}
        tim == (0..MaxTime) \X (0..MaxTime)
    IN {p \in {[X |-> ps.X, Y |-> ps.Y, Roll_in |-> t[1], Roll_out |-> t[2],
                Accept |-> ps.Accept] : ps \in pos, t \in tim} :
          AircraftValues(ai, p) # {}}

\* The constraints on the pair ai, bi (ord_idx[ai] < ord_idx[bi]) can be met
\* by some value of the pair's binaries.
PairOK(ai, bi, va, vb) ==
    LET someFuture == IsFuture(ai) \/ IsFuture(bi)
        bothFuture == IsFuture(ai) /\ IsFuture(bi)
    IN
    /\ \E Right_ab \in 0..1 : /\ e11(ai, bi, va, vb, Right_ab)
       /\ \E Right_ba \in 0..1 : /\ e11(bi, ai, vb, va, Right_ba)
       /\ \E Above_ab \in 0..1 : /\ e12(ai, bi, va, vb, Above_ab)
       /\ \E Above_ba \in 0..1 : /\ e12(bi, ai, vb, va, Above_ba)
       /\ \E OutIn_ab \in 0..1 : /\ e14(ai, bi, va, vb, OutIn_ab)
       /\ \E OutIn_ba \in 0..1 : /\ e14(bi, ai, vb, va, OutIn_ba)
       /\ e13(ai, bi, va, vb, Right_ba, Right_ab, Above_ba, Above_ab, OutIn_ab, OutIn_ba)
       /\ \E InIn_ab \in InInBounds(ai, bi), InIn_ba \in InInBounds(bi, ai) :
            /\ bothFuture =>
                 /\ e15(ai, bi, va, vb, InIn_ab) /\ e16(ai, bi, va, vb, InIn_ab)
                 /\ e15(bi, ai, vb, va, InIn_ba) /\ e16(bi, ai, vb, va, InIn_ba)
            /\ e21(ai, bi, va, vb, Above_ba, Right_ab, Right_ba, InIn_ab)
            /\ e21(bi, ai, vb, va, Above_ab, Right_ba, Right_ab, InIn_ba)
            /\ someFuture =>
                 /\ e22(ai, bi, va, vb, Above_ba, Right_ab, Right_ba, InIn_ab)
                 /\ e22(bi, ai, vb, va, Above_ab, Right_ba, Right_ab, InIn_ba)
    /\ \E OutOut_ab \in 0..1 :
         e17(ai, bi, va, vb, OutOut_ab) /\ e18(ai, bi, va, vb, OutOut_ab)
    /\ someFuture =>
         \E InOut_ab \in 0..1, InOut_ba \in 0..1 :
            /\ e19(ai, bi, va, vb, InOut_ab) /\ e20(ai, bi, va, vb, InOut_ab)
            /\ e19(bi, ai, vb, va, InOut_ba) /\ e20(bi, ai, vb, va, InOut_ba)

\* The placements of the first k aircraft of a that satisfy every pairwise
\* constraint among them (e11-e22 mention no delay variable).
RECURSIVE Placements(_)
Placements(k) ==
    IF k = 0 THEN {<<>>}
    ELSE LET prev == Placements(k - 1)
             vals == PlacementValues(a[k])
         IN {Append(sv[1], sv[2]) :
               sv \in {pr \in prev \X vals :
                          \A j \in 1..(k - 1) : PairOK(a[j], a[k], pr[1][j], pr[2])}}

\* The assignments of the first k aircraft that extend placement pl.
RECURSIVE Extensions(_, _)
Extensions(pl, k) ==
    IF k = 0 THEN {<<>>}
    ELSE {Append(sv[1], sv[2]) :
            sv \in Extensions(pl, k - 1) \X AircraftValues(a[k], pl[k])}

\* The assignments (aircraft id -> values) that satisfy all constraints and
\* extend placement pl.  Every assignment extends exactly one placement of all
\* aircraft, and every such placement has an extension.
Assignments(pl) == Extensions(pl, Len(a))

\* obj, in units of 1/ObjScale.
Objective(s) ==
    LET rej(fi) == params.P_Rej[fi] * (1 - s[fi].Accept)
        arr(fi) == params.P_Arr[fi] * s[fi].D_Arr
        dep(ai) == params.P_Dep[ai] * s[ai].D_Dep
        eps(fi) == s[fi].X + s[fi].Y
    IN ObjScale * quicksum([i \in 1..Len(f) |-> rej(f[i])])
       + ObjScale * quicksum([i \in 1..Len(f) |-> arr(f[i])])
       + ObjScale * quicksum([i \in 1..Len(a) |-> dep(a[i])])
       + epsilon_p * quicksum([i \in 1..Len(f) |-> eps(f[i])])

Minimum(S) == CHOOSE x \in S : \A y \in S : x <= y

\* m.ObjVal at status OPTIMAL: the least objective over the assignments that
\* extend a placement in P (P is not empty).
ObjVal(P) ==
    Minimum({Minimum({Objective(s) : s \in Assignments(pl)}) : pl \in P})

----------------------------------------------------------------------------
(* solve_and_report: the report rows *)

ReportRow(ai, s) ==
    [Aircraft               |-> ai,
     Accepted               |-> s[ai].Accept,
     Width                  |-> params.W[ai],
     Length                 |-> params.L[ai],
     ETA                    |-> Get(params.ETA, ai),
     Roll_In                |-> s[ai].Roll_in,
     X                      |-> s[ai].X,
     Y                      |-> s[ai].Y,
     ServT                  |-> params.ServT[ai],
     ETD                    |-> params.ETD[ai],
     Roll_Out               |-> s[ai].Roll_out,
     D_Arr                  |-> IF IsFuture(ai) THEN s[ai].D_Arr ELSE 0,
     D_Dep                  |-> s[ai].D_Dep,
     Penalty_Reject         |-> Get(params.P_Rej, ai),
     Penalty_ArrivalDelay   |-> Get(params.P_Arr, ai),
     Penalty_DepartureDelay |-> params.P_Dep[ai],
     Hangar_Width           |-> hangar.HW,
     Hangar_Length          |-> hangar.HL]

Report(s) == [i \in 1..Len(a) |-> ReportRow(a[i], s)]

----------------------------------------------------------------------------
(* analyze_solution_csv *)

\* is_future = (p_rej > 0.0) or (p_arr > 0.0)
is_future(row) == row.Penalty_Reject > 0 \/ row.Penalty_ArrivalDelay > 0

\* The Accepted cell as it is read, without the threshold.
accepted_AsRead(row) == row.Accepted

\* accepted = 1.0 if accepted >= 0.5 else 0.0
accepted(row) == IF 2 * row.Accepted >= 1 THEN 1 ELSE 0

\* The metrics of a non-empty report; objective components in units of
\* 1/ObjScale, acceptance_rate as <<numerator, denominator>>.
analyze_solution_csv(rows) ==
    LET idx == 1..Len(rows)
        requests == {i \in idx : is_future(rows[i])}
        accepted_requests == {i \in requests : accepted(rows[i]) = 1}
        n_requests == Cardinality(requests)
        n_accepted == Cardinality(accepted_requests)
        t_rej(row) == IF is_future(row)
                      THEN ObjScale * row.Penalty_Reject * (1 - accepted(row)) ELSE 0
        t_arr(row) == IF is_future(row)
                      THEN ObjScale * row.Penalty_ArrivalDelay * row.D_Arr ELSE 0
        t_eps(row) == IF is_future(row) THEN epsilon_p * (row.X + row.Y) ELSE 0
        t_dep(row) == ObjScale * row.Penalty_DepartureDelay * row.D_Dep
        d_arr(row) == IF is_future(row) THEN row.D_Arr ELSE 0
        obj_rej == SumSeq([i \in idx |-> t_rej(rows[i])])
        obj_arr == SumSeq([i \in idx |-> t_arr(rows[i])])
        obj_dep == SumSeq([i \in idx |-> t_dep(rows[i])])
        obj_eps == SumSeq([i \in idx |-> t_eps(rows[i])])
    IN [n_total         |-> Len(rows),
        n_current       |-> Cardinality(idx \ requests),
        n_requests      |-> n_requests,
        n_accepted      |-> n_accepted,
        n_rejected      |-> Cardinality(requests \ accepted_requests),
        acceptance_rate |-> IF n_requests = 0 THEN <<1, 1>> ELSE <<n_accepted, n_requests>>,
        total_D_Arr     |-> SumSeq([i \in idx |-> d_arr(rows[i])]),
        total_D_Dep     |-> SumSeq([i \in idx |-> rows[i].D_Dep]),
        obj_rej         |-> obj_rej,
        obj_arr         |-> obj_arr,
        obj_dep         |-> obj_dep,
        obj_eps         |-> obj_eps,
        objective       |-> obj_rej + obj_arr + obj_dep + obj_eps]

----------------------------------------------------------------------------
(* main() of main_rej_pen.py *)

\* Reading the tables: build_sets, if not a: raise ValueError,
\* build_parameters (which raises KeyError for an unknown model id),
\* base_P_Rej = params["P_Rej"].copy()
Start ==
    /\ pc = "start"
    /\ LET sets == build_sets(t2, t3)
           al == sets.c \o sets.f
           unknown == UnknownModel(t1_map, al, sets.M_ID)
           p == build_parameters(t1_map, t2, t3, sets.c, sets.f, sets.M_ID)
       IN /\ c' = sets.c
          /\ f' = sets.f
          /\ IF NoAircraft(al)
             THEN /\ raised' = [type |-> "ValueError"]
                  /\ pc' = "error"
                  /\ UNCHANGED <<params, base_P_Rej>>
             ELSE IF unknown # {}
             THEN /\ \E ai \in unknown :
                        raised' = [type |-> "KeyError", mid |-> str(sets.M_ID[ai]),
                                   ai |-> ai]
                  /\ pc' = "error"
                  /\ UNCHANGED <<params, base_P_Rej>>
             ELSE /\ params' = p
                  /\ base_P_Rej' = p.P_Rej
                  /\ pc' = "build"
                  /\ UNCHANGED raised
    /\ UNCHANGED <<hangar, t1_map, t2, t3, fidx, bigm, status, sol, report,
                   metrics, rates, stdout, files, summary, shifts>>

\* The scaling applied to the penalties of the previous factor.
ScaledPRej_Compounding(factor) ==
    [key \in DOMAIN params.P_Rej |-> factor * params.P_Rej[key]]

\* params["P_Rej"] = {key: factor * val for key, val in base_P_Rej.items()}
ScaledPRej(factor) == [key \in DOMAIN base_P_Rej |-> factor * base_P_Rej[key]]

\* Loop head: scale the penalties and build the model of this factor (a new
\* model without solution, a new report file name); leave the loop after the
\* last factor.
BuildModel ==
    /\ pc = "build"
    /\ IF fidx > Len(rej_factors)
       THEN /\ pc' = "done"
            /\ UNCHANGED <<params, bigm, status, sol, report, metrics, stdout>>
       ELSE /\ params' = [params EXCEPT !.P_Rej = ScaledPRej(rej_factors[fidx])]
            /\ bigm' = BigM
            /\ status' = "LOADED"
            /\ sol' = NoSol
            /\ report' = <<>>
            /\ metrics' = NoMetrics
            /\ stdout' = <<>>
            /\ pc' = "solve"
    /\ UNCHANGED <<hangar, t1_map, t2, t3, c, f, base_P_Rej, fidx, rates, raised,
                   files, summary, shifts>>

\* The statuses of a solve that stopped on a limit or was interrupted.
LimitStatuses == {"TIME_LIMIT", "INTERRUPTED"}

\* check_model_status without exit(0) in a loop that goes on with the factors.
check_model_status_Continue(st) ==
    [printed |-> IF st = "OPTIMAL" THEN <<>> ELSE <<"Optimization was stopped with status">>,
     next |-> IF st # "OPTIMAL" THEN "build" ELSE "analyze"]

\* check_model_status: the lines it prints (the names of the constraints of
\* the IIS left out) and where the program goes: exit(0) unless OPTIMAL.
check_model_status(st) ==
    [printed |->
        IF st = "OPTIMAL" THEN <<>>
        ELSE IF st = "UNBOUNDED"
             THEN <<"The model cannot be solved because it is unbounded">>
        ELSE IF st = "INFEASIBLE"
             THEN <<"The model is infeasible; computing IIS",
                    "The following constraint(s) cannot be satisfied:">>
        ELSE IF st # "INF_OR_UNBD"
             THEN <<"Optimization was stopped with status">>
        ELSE <<>>,
     next |-> IF st # "OPTIMAL" THEN "exit" ELSE "analyze"]

\* solve_and_report: m.optimize(), check_model_status (exit unless OPTIMAL),
\* write the report.  An infeasible model ends INFEASIBLE, or INF_OR_UNBD when
\* presolve finds it; a stopped solve has the incumbent, if any.
SolveAndReport ==
    /\ pc = "solve"
    /\ \E P \in {Placements(Len(a))} :
       \/ /\ P = {}
          /\ status' \in {"INFEASIBLE", "INF_OR_UNBD"}
          /\ sol' = NoSol
       \/ /\ status' \in LimitStatuses
          /\ sol' = NoSol
       \/ \E pl \in P : \E s \in Assignments(pl) :
             /\ status' \in LimitStatuses
             /\ sol' = s
       \/ /\ P # {}
          /\ \E best \in {ObjVal(P)} : \E pl \in P : \E s \in Assignments(pl) :
                /\ Objective(s) = best
                /\ status' = "OPTIMAL"
                /\ sol' = s
    /\ stdout' = check_model_status(status').printed
    /\ pc' = check_model_status(status').next
    /\ report' = IF pc' = "analyze" THEN Report(sol') ELSE report
    /\ UNCHANGED <<hangar, t1_map, t2, t3, c, f, params, base_P_Rej, fidx, bigm,
                   metrics, rates, raised, files, summary, shifts>>

\* The analyzer reads the report of this factor.
Analyze ==
    /\ pc = "analyze"
    /\ report # <<>>
    /\ metrics' = analyze_solution_csv(report)
    /\ rates' = Append(rates, metrics'.acceptance_rate)
    /\ fidx' = fidx + 1
    /\ pc' = "build"
    /\ UNCHANGED <<hangar, t1_map, t2, t3, c, f, params, base_P_Rej, bigm, status,
                   sol, report, raised, stdout, files, summary, shifts>>

Next == Start \/ BuildModel \/ SolveAndReport \/ Analyze

Spec == Init /\ [][Next]_vars

\* The sweep in the hangar of main().
SpecExample == InitExample /\ [][Next]_vars

----------------------------------------------------------------------------
(* Properties of the assignments the solver may return *)

\* The state holds an assignment that satisfies every constraint.
Solved == sol # NoSol

Accepted(ai) == sol[ai].Accept = 1

RightOf(ai, bi) == sol[bi].X + params.W[bi] + Buffer <= sol[ai].X

AboveOf(ai, bi) == sol[bi].Y + params.L[bi] + Buffer <= sol[ai].Y

GoneBefore(ai, bi) == sol[ai].Roll_out + epsilon_t <= sol[bi].Roll_in

LaterallySeparated(ai, bi) == RightOf(ai, bi) \/ RightOf(bi, ai)

PresentTogether(ai, bi) == ~GoneBefore(ai, bi) /\ ~GoneBefore(bi, ai)

AcceptedPairs ==
    {p \in Range(a) \X Range(a) : p[1] # p[2] /\ Accepted(p[1]) /\ Accepted(p[2])}

\* C1: in every assignment that satisfies the constraints, two distinct
\* accepted aircraft are separated in x or in y by the buffer, or one has
\* rolled out at least epsilon_t before the other rolls in.
C1_NoOverlap ==
    Solved =>
        \A p \in AcceptedPairs :
            \/ RightOf(p[1], p[2]) \/ RightOf(p[2], p[1])
            \/ AboveOf(p[1], p[2]) \/ AboveOf(p[2], p[1])
            \/ GoneBefore(p[1], p[2]) \/ GoneBefore(p[2], p[1])

\* Two accepted aircraft are in the hangar at the same time (so the constraints
\* had to separate them in space), for a pair of requests and for a pair with
\* a current aircraft.
C1_Witness ==
    /\ Solved
    /\ \E p \in AcceptedPairs :
          /\ PresentTogether(p[1], p[2])
          /\ IsFuture(p[2])
          /\ sol[p[1]].Roll_out > sol[p[2]].Roll_in
          /\ sol[p[2]].Roll_out > sol[p[1]].Roll_in

\* C2: in every assignment that satisfies the constraints, a current aircraft
\* is accepted, stands at its initial position and has roll-in time 0.
C2_CurrentFixed ==
    Solved =>
        \A ci \in Range(c) :
            /\ sol[ci].Accept = 1
            /\ sol[ci].X = params.X_init[ci]
            /\ sol[ci].Y = params.Y_init[ci]
            /\ sol[ci].Roll_in = 0

\* An optimal assignment of an instance with a current aircraft away from the
\* origin and an accepted request.
C2_Witness ==
    /\ status = "OPTIMAL"
    /\ \E ci \in Range(c) : params.X_init[ci] > 0 /\ params.Y_init[ci] > 0
    /\ \E fi \in Range(f) : Accepted(fi)

\* C3: a rejected request contributes exactly P_Rej to the objective: its
\* delay terms and its positioning term are 0.
C3_RejectedCost ==
    Solved =>
        \A fi \in Range(f) :
            sol[fi].Accept = 0 =>
                /\ params.P_Arr[fi] * sol[fi].D_Arr = 0
                /\ params.P_Dep[fi] * sol[fi].D_Dep = 0
                /\ sol[fi].X + sol[fi].Y = 0

\* A rejected request with positive delay penalty rates whose expected
\* arrival is after time 0.
C3_Witness ==
    /\ Solved
    /\ \E fi \in Range(f) :
          /\ sol[fi].Accept = 0
          /\ params.P_Arr[fi] > 0
          /\ params.ETA[fi] > 0

\* C7: every accepted aircraft, current ones included, lies inside the hangar
\* deflated by the buffer.
C7_InsideHangar ==
    Solved =>
        \A ai \in Range(a) :
            Accepted(ai) =>
                /\ Buffer <= sol[ai].X
                /\ sol[ai].X + params.W[ai] <= hangar.HW - Buffer
                /\ Buffer <= sol[ai].Y
                /\ sol[ai].Y + params.L[ai] <= hangar.HL - Buffer

\* C8: an accepted request does not roll in before its expected arrival, and
\* an accepted aircraft stays at least its service duration.
C8_ArrivalAndService ==
    Solved =>
        /\ \A fi \in Range(f) : Accepted(fi) => sol[fi].Roll_in >= params.ETA[fi]
        /\ \A ai \in Range(a) :
              Accepted(ai) => sol[ai].Roll_out - sol[ai].Roll_in >= params.ServT[ai]

\* An accepted request with a positive expected arrival and a positive service
\* duration that rolls in on arrival and out when served.
C8_Witness ==
    /\ Solved
    /\ \E fi \in Range(f) :
          /\ Accepted(fi) /\ params.ETA[fi] > 0 /\ params.ServT[fi] > 0
          /\ sol[fi].Roll_in = params.ETA[fi]
          /\ sol[fi].Roll_out = sol[fi].Roll_in + params.ServT[fi]

\* The pairs <<a, b>> of accepted aircraft present at the same time, not
\* laterally separated, with b above a.
BlockedPairs ==
    {p \in AcceptedPairs :
        /\ PresentTogether(p[1], p[2])
        /\ ~LaterallySeparated(p[1], p[2])
        /\ AboveOf(p[2], p[1])}

C4_ReconstructedObjective ==
    (status = "OPTIMAL" /\ metrics # NoMetrics) =>
        metrics.objective = Objective(sol)

\* The concrete scenario at its stated rejection penalty.
ScenarioSolved ==
    /\ IsScenario
    /\ status = "OPTIMAL"
    /\ params.P_Rej[f[1]] = 1000

\* C5: every optimal solution of the concrete scenario accepts the request,
\* keeps it clear of the current aircraft while both are present, and pays no
\* rejection cost.
C5_ScenarioAccepted ==
    ScenarioSolved =>
        /\ Accepted(f[1])
        /\ \/ LaterallySeparated(c[1], f[1])
           \/ AboveOf(c[1], f[1]) \/ AboveOf(f[1], c[1])
           \/ ~PresentTogether(c[1], f[1])
        /\ params.P_Rej[f[1]] * (1 - sol[f[1]].Accept) = 0

\* C6: in every optimal solution a delay is 0 exactly when the aircraft is on
\* time, whatever its penalty rate.
C6_DelayZeroIffOnTime ==
    status = "OPTIMAL" =>
        /\ \A ai \in Range(a) :
              /\ sol[ai].D_Dep >= 0
              /\ sol[ai].D_Dep = 0 <=> sol[ai].Roll_out <= params.ETD[ai]
        /\ \A fi \in Range(f) :
              /\ sol[fi].D_Arr >= 0
              /\ sol[fi].D_Arr = 0 <=> sol[fi].Roll_in <= params.ETA[fi]

\* r1 <= r2 for rates <<numerator, denominator>>.
RateLeq(r1, r2) == r1[1] * r2[2] <= r2[1] * r1[2]

\* C10: over the sweep, the acceptance rate the analyzer computes is
\* non-decreasing in the factor.
C10_MonotoneAcceptance ==
    \A i \in DOMAIN rates : \A j \in DOMAIN rates :
        i < j => RateLeq(rates[i], rates[j])

----------------------------------------------------------------------------
(* Properties of main(): loading, validation, the sweep loop *)

\* The model of this factor has been built and handed to the solver.
HandedToSolver == pc = "solve" \/ status # "LOADED"

FootprintFits(ai) ==
    /\ params.W[ai] <= hangar.HW - 2 * Buffer
    /\ params.L[ai] <= hangar.HL - 2 * Buffer

InitialInside(ci) ==
    /\ Buffer <= params.X_init[ci]
    /\ params.X_init[ci] + params.W[ci] <= hangar.HW - Buffer
    /\ Buffer <= params.Y_init[ci]
    /\ params.Y_init[ci] + params.L[ci] <= hangar.HL - Buffer

\* C11: a model is handed to the solver only if every aircraft's footprint
\* fits inside the hangar deflated by the buffer and every current aircraft's
\* initial footprint lies inside it: otherwise a configuration error is
\* reported before any solve.
C11_FootprintValidated ==
    HandedToSolver =>
        \A ai \in Range(a) :
            /\ FootprintFits(ai)
            /\ IsCurrent(ai) => InitialInside(ai)

EmptyInstance == t2 = <<>> /\ t3 = <<>>

\* C12: for an instance without aircraft main() raises the configuration
\* error (ValueError) and neither parameters nor a model are built:
\* build_model is never called with an empty aircraft list.
C12_EmptyInstanceError ==
    EmptyInstance =>
        /\ pc \in {"start", "error"}
        /\ pc = "error" => raised.type = "ValueError"
        /\ params = NoParams
        /\ bigm = [M_T |-> 0, M_X |-> 0, M_Y |-> 0]
        /\ status = "LOADED"

\* main() has stopped on the error of the empty instance.
C12_Witness ==
    /\ EmptyInstance
    /\ pc = "error"
    /\ raised.type = "ValueError"

\* C13: in every report, the analyzer's rule is_future classifies a row as a
\* request exactly when its aircraft is in the future set f, and the counts
\* of the analyzer are those of the instance: n_requests = |f|, n_current = |c|.
C13_Classification ==
    report # <<>> =>
        /\ \A i \in DOMAIN report :
              is_future(report[i]) <=> IsFuture(report[i].Aircraft)
        /\ metrics # NoMetrics =>
              /\ metrics.n_requests = Len(f)
              /\ metrics.n_current = Len(c)

\* The parameters as build_parameters returned them for the tables.
LoadedParams == build_parameters(t1_map, t2, t3, c, f, build_sets(t2, t3).M_ID)

\* C14: for every factor of the sweep, whatever factors came before it, the
\* model is built with P_Rej[i] = factor * base_P_Rej[i]; base_P_Rej stays the
\* loaded rejection penalties; every other parameter stays as loaded.
C14_NoCompounding ==
    pc \in {"build", "solve", "analyze", "done"} =>
        /\ base_P_Rej = LoadedParams.P_Rej
        /\ \A col \in DOMAIN params \ {"P_Rej"} : params[col] = LoadedParams[col]
        /\ pc \in {"solve", "analyze"} =>
              \A fi \in Range(f) :
                  params.P_Rej[fi] = rej_factors[fidx] * base_P_Rej[fi]

\* The model of the third factor is built after two solved factors, for a
\* request with a positive baseline penalty.
C14_Witness ==
    /\ pc = "solve"
    /\ fidx = 3
    /\ \E fi \in Range(f) :
          /\ base_P_Rej[fi] > 0
          /\ params.P_Rej[fi] = rej_factors[3] * base_P_Rej[fi]
          /\ params.P_Rej[fi] # rej_factors[2] * base_P_Rej[fi]

\* The last solve ended with a status other than OPTIMAL.
FailedSolve == status \notin {"LOADED", "OPTIMAL"}

\* C16: when the solve of a factor ends with a status other than OPTIMAL, the
\* program stops there: no report is written for that factor and no further
\* step (no build or solve of a later factor) is taken.
C16_SweepStops ==
    /\ [](FailedSolve => pc = "exit" /\ report = <<>>)
    /\ [][~FailedSolve]_vars

\* The solve of the second factor failed after the first factor was solved
\* and analysed, with a factor left in the list.
C16_Witness ==
    /\ FailedSolve
    /\ pc = "exit"
    /\ fidx = 2
    /\ Len(rates) = 1

\* C17: after every solve that ended with a status other than OPTIMAL,
\* check_model_status has printed a diagnostic of the outcome.
C17_DiagnosticEmitted == FailedSolve => stdout # <<>>

\* C18: when the solve stops on its time budget with a feasible assignment
\* found, the report of that assignment is written.
C18_BestFoundReported ==
    (status = "TIME_LIMIT" /\ sol # NoSol) => report = Report(sol)

\* The columns the tables must have.
RequiredT1 == {"W", "L"}
RequiredT2 == {"ETD", "ServT", "P_Dep", "Init_X", "Init_Y"}
RequiredT3 == {"ETA", "ETD", "ServT", "P_Rej", "P_Arr", "P_Dep"}

MissingColumn ==
    \/ \E mid \in DOMAIN t1_map : ~(RequiredT1 \subseteq DOMAIN t1_map[mid])
    \/ \E i \in DOMAIN t2 : ~(RequiredT2 \subseteq DOMAIN t2[i])
    \/ \E i \in DOMAIN t3 : ~(RequiredT3 \subseteq DOMAIN t3[i])

\* C19: when a table lacks a required column, loading ends with an error and
\* no parameter set is produced (so no model is built): the missing value is
\* never replaced by a default.
C19_MissingColumnFatal ==
    MissingColumn =>
        /\ pc \in {"start", "error"}
        /\ params = NoParams

\* The aircraft (ids 1..n, the rows of T2 first) whose model id no key of the
\* model catalogue denotes.
Unresolved ==
    LET cell(i) == IF i <= Len(t2) THEN t2[i].M_ID ELSE t3[i - Len(t2)].M_ID
    IN {i \in 1..(Len(t2) + Len(t3)) :
          \A mid \in DOMAIN t1_map : int(mid) # int(cell(i))}

\* C20: when an aircraft refers to a model id that the catalogue does not
\* have, build_parameters raises an error that names such an aircraft, no
\* parameters are returned and build_model is never called.
C20_UnknownModelError ==
    Unresolved # {} =>
        /\ pc \in {"start", "error"}
        /\ pc = "error" => raised.type = "KeyError" /\ raised.ai \in Unresolved
        /\ params = NoParams
        /\ bigm = [M_T |-> 0, M_X |-> 0, M_Y |-> 0]
        /\ status = "LOADED"

\* The error names a request of an unknown model that follows a current
\* aircraft of a known one.
C20_Witness ==
    /\ pc = "error"
    /\ raised.type = "KeyError"
    /\ raised.ai = 2
    /\ raised.mid = <<9>>
    /\ 1 \notin Unresolved

----------------------------------------------------------------------------
(* collect_sensitivity of analyze_rejection_sensitivity.py: the solution files
   of a sweep, summarised and ordered by factor.  A file is named
   solution_rej_<tag>.csv; the state keeps, per tag, the rows of the file.  A
   tag is the sequence of characters main() writes for a factor:
   f"rej_{factor}".replace(".", "p"). *)

\* The tags of the factors 0, 1, 10 (integers) and 0.25, 1.0, 2.0, 10.0.
Tags ==
    {<<"0">>, <<"1">>, <<"1", "0">>, <<"0", "p", "2", "5">>, <<"1", "p", "0">>,
     <<"2", "p", "0">>, <<"1", "0", "p", "0">>}

\* Reports of one request, rejected and accepted, as solve_and_report writes
\* them.
SolutionRows ==
    {<<[Aircraft |-> 1, Accepted |-> acc, Width |-> 1, Length |-> 1, ETA |-> 0,
        Roll_In |-> 0, X |-> acc, Y |-> acc, ServT |-> 1, ETD |-> 1,
        Roll_Out |-> acc, D_Arr |-> 0, D_Dep |-> 0, Penalty_Reject |-> 2,
        Penalty_ArrivalDelay |-> 1, Penalty_DepartureDelay |-> 1,
        Hangar_Width |-> 5, Hangar_Length |-> 5]>> : acc \in 0..1}

\* The directories: each tag names no file or a file with one of the reports.
Directories == UNION {[S -> SolutionRows] : S \in SUBSET Tags}

\* The code points of the characters of a file name that tell two names apart.
ord == ("." :> 46) @@ ("0" :> 48) @@ ("1" :> 49) @@ ("2" :> 50) @@ ("5" :> 53)
           @@ ("p" :> 112)

\* The part of the path after "solution_rej_", up to the extension's dot.
PathOf(tag) == Append(tag, ".")

\* Python's order of str: s < t.
RECURSIVE StrLess(_, _)
StrLess(s, t) ==
    IF s = <<>> THEN t # <<>>
    ELSE IF t = <<>> THEN FALSE
    ELSE IF Head(s) = Head(t) THEN StrLess(Tail(s), Tail(t))
    ELSE ord[Head(s)] < ord[Head(t)]

\* sorted(glob.glob(pattern)): the tags of the files in the order of their
\* paths.
RECURSIVE sorted(_)
sorted(S) ==
    IF S = {} THEN <<>>
    ELSE LET first == CHOOSE x \in S :
                          \A y \in S \ {x} : StrLess(PathOf(x), PathOf(y))
         IN <<first>> \o sorted(S \ {first})

\* tag.replace("p", ".")
replace(tag) == [i \in 1..Len(tag) |-> IF tag[i] = "p" THEN "." ELSE tag[i]]

\* The value of a sequence of decimal digits.
RECURSIVE Digits(_)
Digits(s) ==
    IF s = <<>> THEN 0
    ELSE 10 * Digits(SubSeq(s, 1, Len(s) - 1)) + (ord[s[Len(s)]] - ord["0"])

\* float(factor_str), in hundredths, of digits with at most one "." followed
\* by at most two digits.
float(factor_str) ==
    LET dots == {i \in 1..Len(factor_str) : factor_str[i] = "."}
        dot == IF dots = {} THEN Len(factor_str) + 1 ELSE CHOOSE i \in dots : TRUE
        whole == SubSeq(factor_str, 1, dot - 1)
        frac == SubSeq(factor_str, dot + 1, Len(factor_str))
    IN 100 * Digits(whole)
       + (IF Len(frac) = 1 THEN 10 * Digits(frac) ELSE Digits(frac))

parse_factor_from_filename(tag) == float(replace(tag))

\* summarize_solution_file: the factor, the file and the metrics of its rows
\* (the 95th percentile of the departure delays left out).
summarize_solution_file(tag, rows) ==
    [factor |-> parse_factor_from_filename(tag), file |-> tag]
        @@ analyze_solution_csv(rows)

\* rows.sort(key=...) without its key: the rows in the order of their paths.
sort_by_factor_NoSort(rows) == rows

\* rows.sort(key=lambda r: r["factor"]): a stable sort, by insertion.
RECURSIVE sort_by_factor(_)
sort_by_factor(rows) ==
    IF rows = <<>> THEN <<>>
    ELSE LET init == sort_by_factor(SubSeq(rows, 1, Len(rows) - 1))
             last == rows[Len(rows)]
             k == Cardinality({i \in 1..Len(init) : init[i].factor <= last.factor})
         IN SubSeq(init, 1, k) \o <<last>> \o SubSeq(init, k + 1, Len(init))

collect_sensitivity(dir) ==
    LET paths == sorted(DOMAIN dir)
        rows == [i \in 1..Len(paths) |-> summarize_solution_file(paths[i], dir[paths[i]])]
    IN sort_by_factor(rows)

\* The analysis script before it scans the directory.
InitCollect ==
    /\ files \in Directories
    /\ summary = <<>>
    /\ shifts = NoShifts
    /\ pc = "collect"
    /\ hangar = SmallHangar
    /\ t1_map = <<>>
    /\ t2 = <<>>
    /\ t3 = <<>>
    /\ c = <<>>
    /\ f = <<>>
    /\ params = NoParams
    /\ base_P_Rej = <<>>
    /\ fidx = 1
    /\ bigm = [M_T |-> 0, M_X |-> 0, M_Y |-> 0]
    /\ status = "LOADED"
    /\ sol = NoSol
    /\ report = <<>>
    /\ metrics = NoMetrics
    /\ rates = <<>>
    /\ raised = NoError
    /\ stdout = <<>>

\* collect_sensitivity(): FileNotFoundError when no file matches.
CollectSensitivity ==
    /\ pc = "collect"
    /\ IF DOMAIN files = {}
       THEN /\ raised' = [type |-> "FileNotFoundError"]
            /\ pc' = "error"
            /\ UNCHANGED summary
       ELSE /\ summary' = collect_sensitivity(files)
            /\ pc' = "collected"
            /\ UNCHANGED raised
    /\ UNCHANGED <<hangar, t1_map, t2, t3, c, f, params, base_P_Rej, fidx, bigm,
                   status, sol, report, metrics, rates, stdout, files, shifts>>

NextCollect == CollectSensitivity

SpecCollect == InitCollect /\ [][NextCollect]_vars

\* C15: collect_sensitivity returns one summary record per solution file (the
\* record of that file), and the records are in ascending order of their
\* factor, whatever the order of the file names.
C15_SortedByFactor ==
    pc = "collected" =>
        /\ Len(summary) = Cardinality(DOMAIN files)
        /\ \A tag \in DOMAIN files :
              \E i \in DOMAIN summary :
                  summary[i] = summarize_solution_file(tag, files[tag])
        /\ \A i \in DOMAIN summary : \A j \in DOMAIN summary :
              i < j => summary[i].factor <= summary[j].factor

\* The files of the factors 10.0 and 2.0 (the path of 10.0 sorts first) and
\* of 0.25 are summarised.
C15_Witness ==
    /\ pc = "collected"
    /\ {<<"1", "0", "p", "0">>, <<"2", "p", "0">>, <<"0", "p", "2", "5">>}
           \subseteq DOMAIN files
    /\ \E i \in DOMAIN summary : \E j \in DOMAIN summary :
          /\ i < j
          /\ summary[i].factor = 200
          /\ summary[j].factor = 1000
          /\ StrLess(PathOf(summary[j].file), PathOf(summary[i].file))

----------------------------------------------------------------------------
(* Properties of the big-M linearisation and of the pairwise indicators *)

\* The values of X, Y, Roll_in, Roll_out, Accept of aircraft ai and bi meet
\* the requirements the pairwise constraints e11-e22 stand for: nothing is
\* asked of a pair with a rejected aircraft; two accepted aircraft are apart
\* in x or y by Buffer or one is gone epsilon_t before the other comes
\* (e11-e14); their roll-outs are epsilon_t apart (e17, e18), their roll-ins
\* too when both are requests (e15, e16), and a roll-in and a roll-out when
\* one is a request (e19, e20); of two aircraft present together in one
\* column the one below rolls out epsilon_t after the one above (e21, e22).
IntendedPair(ai, bi, va, vb) ==
    LET right_ab == vb.X + params.W[bi] + Buffer <= va.X
        right_ba == va.X + params.W[ai] + Buffer <= vb.X
        above_ab == vb.Y + params.L[bi] + Buffer <= va.Y
        above_ba == va.Y + params.L[ai] + Buffer <= vb.Y
        gone_ab  == va.Roll_out + epsilon_t <= vb.Roll_in
        gone_ba  == vb.Roll_out + epsilon_t <= va.Roll_in
        Apart(x, y) == x + epsilon_t <= y \/ y + epsilon_t <= x
        together == ~gone_ab /\ ~gone_ba /\ ~right_ab /\ ~right_ba
    IN (va.Accept = 1 /\ vb.Accept = 1) =>
          /\ right_ab \/ right_ba \/ above_ab \/ above_ba \/ gone_ab \/ gone_ba
          /\ Apart(va.Roll_out, vb.Roll_out)
          /\ (IsFuture(ai) /\ IsFuture(bi)) => Apart(va.Roll_in, vb.Roll_in)
          /\ (IsFuture(ai) \/ IsFuture(bi)) =>
                /\ Apart(va.Roll_in, vb.Roll_out)
                /\ Apart(vb.Roll_in, va.Roll_out)
          /\ (together /\ above_ba) => va.Roll_out >= vb.Roll_out + epsilon_t
          /\ (together /\ above_ab) => vb.Roll_out >= va.Roll_out + epsilon_t

\* The pairs of positions in a whose aircraft come in that order.
OrderedPositions == {p \in (1..Len(a)) \X (1..Len(a)) : p[1] < p[2]}

\* C21: the time bound M_T is large enough.  Once the model is built, values
\* of two aircraft that satisfy each aircraft's own constraints and the
\* requirements on the pair can be completed with values of the pair's
\* binaries so that e11-e22 hold: no big-M constraint binds when it is
\* switched off.
C21_BigMSound ==
    pc = "solve" =>
        \A p \in OrderedPositions :
            \A va \in PlacementValues(a[p[1]]), vb \in PlacementValues(a[p[2]]) :
                IntendedPair(a[p[1]], a[p[2]], va, vb)
                    => PairOK(a[p[1]], a[p[2]], va, vb)

\* The values of Right, Above, OutIn and InIn of the pair ai, bi
\* (ord_idx[ai] < ord_idx[bi]) that satisfy, with the values va, vb of the two
\* aircraft, the bounds of InIn and the constraints e11-e16, e21, e22 on the
\* pair.  A field X_ab is X[ai, bi], a field X_ba is X[bi, ai].
CoreBinaries(ai, bi, va, vb) ==
    LET someFuture == IsFuture(ai) \/ IsFuture(bi)
        bothFuture == IsFuture(ai) /\ IsFuture(bi)
    IN {b \in [Right_ab  : {x \in 0..1 : e11(ai, bi, va, vb, x)},
               Right_ba  : {x \in 0..1 : e11(bi, ai, vb, va, x)},
               Above_ab  : {x \in 0..1 : e12(ai, bi, va, vb, x)},
               Above_ba  : {x \in 0..1 : e12(bi, ai, vb, va, x)},
               OutIn_ab  : {x \in 0..1 : e14(ai, bi, va, vb, x)},
               OutIn_ba  : {x \in 0..1 : e14(bi, ai, vb, va, x)},
               InIn_ab   : {x \in InInBounds(ai, bi) :
                              bothFuture => e15(ai, bi, va, vb, x) /\ e16(ai, bi, va, vb, x)},
               InIn_ba   : {x \in InInBounds(bi, ai) :
                              bothFuture => e15(bi, ai, vb, va, x) /\ e16(bi, ai, vb, va, x)}] :
          /\ e13(ai, bi, va, vb, b.Right_ba, b.Right_ab, b.Above_ba, b.Above_ab,
                 b.OutIn_ab, b.OutIn_ba)
          /\ e21(ai, bi, va, vb, b.Above_ba, b.Right_ab, b.Right_ba, b.InIn_ab)
          /\ e21(bi, ai, vb, va, b.Above_ab, b.Right_ba, b.Right_ab, b.InIn_ba)
          /\ someFuture =>
               /\ e22(ai, bi, va, vb, b.Above_ba, b.Right_ab, b.Right_ba, b.InIn_ab)
               /\ e22(bi, ai, vb, va, b.Above_ab, b.Right_ba, b.Right_ab, b.InIn_ba)}

\* The values of OutOut and InOut of the pair that satisfy e17-e20.
\* OutOut[bi, ai] is in no constraint, and for two current aircraft neither
\* is InOut.
OrderBinaries(ai, bi, va, vb) ==
    LET someFuture == IsFuture(ai) \/ IsFuture(bi)
    IN [OutOut_ab : {x \in 0..1 : e17(ai, bi, va, vb, x) /\ e18(ai, bi, va, vb, x)},
        OutOut_ba : 0..1,
        InOut_ab  : {x \in 0..1 :
                       someFuture => e19(ai, bi, va, vb, x) /\ e20(ai, bi, va, vb, x)},
        InOut_ba  : {x \in 0..1 :
                       someFuture => e19(bi, ai, vb, va, x) /\ e20(bi, ai, vb, va, x)}]

\* The values of all binaries of the pair that satisfy their bounds and every
\* constraint on the pair.
PairBinaries(ai, bi, va, vb) ==
    {x @@ y : x \in CoreBinaries(ai, bi, va, vb), y \in OrderBinaries(ai, bi, va, vb)}

\* The binaries that complete the assignment of the state for the aircraft at
\* positions p[1] < p[2] of a.
SolBinaries(p) == PairBinaries(a[p[1]], a[p[2]], sol[a[p[1]]], sol[a[p[2]]])

\* Their values of Right, Above, OutIn and InIn.
SolCore(p) == CoreBinaries(a[p[1]], a[p[2]], sol[a[p[1]]], sol[a[p[2]]])

\* Their values of OutOut and InOut.
SolOrder(p) == OrderBinaries(a[p[1]], a[p[2]], sol[a[p[1]]], sol[a[p[2]]])

\* The pairs of positions of accepted aircraft, in the order of a.
AcceptedPositions ==
    {p \in OrderedPositions : Accepted(a[p[1]]) /\ Accepted(a[p[2]])}

\* The time inequalities the temporal indicators of ai, bi stand for.
OutInHolds(ai, bi)  == sol[ai].Roll_out + epsilon_t <= sol[bi].Roll_in
InInHolds(ai, bi)   == sol[ai].Roll_in + epsilon_t <= sol[bi].Roll_in
OutOutHolds(ai, bi) == sol[ai].Roll_out + epsilon_t <= sol[bi].Roll_out
InOutHolds(ai, bi)  == sol[ai].Roll_in + epsilon_t <= sol[bi].Roll_out

\* C22 as stated: in every assignment that satisfies the model, each temporal
\* indicator of an ordered pair of accepted aircraft is 1 exactly when its
\* time inequality holds.
C22_IndicatorLinkage ==
    Solved =>
        \A p \in AcceptedPositions : \A b \in SolBinaries(p) :
            LET ai == a[p[1]]
                bi == a[p[2]]
            IN /\ b.OutIn_ab = 1 <=> OutInHolds(ai, bi)
               /\ b.OutIn_ba = 1 <=> OutInHolds(bi, ai)
               /\ b.InIn_ab = 1 <=> InInHolds(ai, bi)
               /\ b.InIn_ba = 1 <=> InInHolds(bi, ai)
               /\ b.OutOut_ab = 1 <=> OutOutHolds(ai, bi)
               /\ b.OutOut_ba = 1 <=> OutOutHolds(bi, ai)
               /\ b.InOut_ab = 1 <=> InOutHolds(ai, bi)
               /\ b.InOut_ba = 1 <=> InOutHolds(bi, ai)

\* C22, amended: in every assignment that satisfies the model, for accepted
\* aircraft, OutIn = 1 implies its time inequality (nothing follows from
\* OutIn = 0); InIn of two requests, OutOut[ai, bi] with ai before bi in a,
\* and InOut of a pair with a request are 1 exactly when their inequality
\* holds.
C22_IndicatorImplies ==
    Solved =>
        \A p \in AcceptedPositions :
            LET ai == a[p[1]]
                bi == a[p[2]]
            IN /\ \A b \in SolCore(p) :
                    /\ b.OutIn_ab = 1 => OutInHolds(ai, bi)
                    /\ b.OutIn_ba = 1 => OutInHolds(bi, ai)
                    /\ (IsFuture(ai) /\ IsFuture(bi)) =>
                          /\ b.InIn_ab = 1 <=> InInHolds(ai, bi)
                          /\ b.InIn_ba = 1 <=> InInHolds(bi, ai)
               /\ \A b \in SolOrder(p) :
                    /\ b.OutOut_ab = 1 <=> OutOutHolds(ai, bi)
                    /\ (IsFuture(ai) \/ IsFuture(bi)) =>
                          /\ b.InOut_ab = 1 <=> InOutHolds(ai, bi)
                          /\ b.InOut_ba = 1 <=> InOutHolds(bi, ai)

\* A current aircraft is gone before an accepted request comes: the assignment
\* is completed with OutIn[ci, fi] = 1 and with OutIn[ci, fi] = 0, and with
\* OutOut[ci, fi] = 1, InOut[ci, fi] = 1 and InOut[fi, ci] = 0.
C22_Witness ==
    /\ Solved
    /\ \E p \in AcceptedPositions :
          /\ IsCurrent(a[p[1]]) /\ IsFuture(a[p[2]])
          /\ OutInHolds(a[p[1]], a[p[2]])
          /\ \E b \in SolBinaries(p) :
                /\ b.OutIn_ab = 1 /\ b.OutOut_ab = 1
                /\ b.InOut_ab = 1 /\ b.InOut_ba = 0
          /\ \E b \in SolBinaries(p) : b.OutIn_ab = 0

\* C23: in every assignment that satisfies the model, InIn[c, f] = 1 and
\* InIn[f, c] = 0 for a current aircraft c and a future aircraft f, and
\* InIn[c, d] = InIn[d, c] = 1 for two current aircraft; the bounds of InIn
\* of two future aircraft are left at 0 and 1.
C23_InInFixed ==
    Solved =>
        \A p \in OrderedPositions :
            LET ai == a[p[1]]
                bi == a[p[2]]
            IN IF IsFuture(ai) /\ IsFuture(bi)
               THEN InInBounds(ai, bi) = {0, 1} /\ InInBounds(bi, ai) = {0, 1}
               ELSE \A b \in SolCore(p) :
                      /\ (IsCurrent(ai) /\ IsFuture(bi)) => b.InIn_ab = 1 /\ b.InIn_ba = 0
                      /\ (IsFuture(ai) /\ IsCurrent(bi)) => b.InIn_ab = 0 /\ b.InIn_ba = 1
                      /\ (IsCurrent(ai) /\ IsCurrent(bi)) => b.InIn_ab = 1 /\ b.InIn_ba = 1

\* An accepted request rolls in at time 0, together with a current aircraft,
\* in an assignment that binaries complete.
C23_Witness ==
    /\ Solved
    /\ \E p \in AcceptedPositions :
          /\ IsCurrent(a[p[1]]) /\ IsFuture(a[p[2]])
          /\ sol[a[p[2]]].Roll_in = 0
          /\ SolCore(p) # {}

----------------------------------------------------------------------------
(* The positioning term of the objective *)

\* The objective without its positioning term.
PenaltyCost(s) ==
    LET rej(fi) == params.P_Rej[fi] * (1 - s[fi].Accept)
        arr(fi) == params.P_Arr[fi] * s[fi].D_Arr
        dep(ai) == params.P_Dep[ai] * s[ai].D_Dep
    IN ObjScale * quicksum([i \in 1..Len(f) |-> rej(f[i])])
       + ObjScale * quicksum([i \in 1..Len(f) |-> arr(f[i])])
       + ObjScale * quicksum([i \in 1..Len(a) |-> dep(a[i])])

\* The least objective without the positioning term over the assignments that
\* extend a placement in P (P is not empty).
MinPenaltyCost(P) ==
    Minimum({Minimum({PenaltyCost(s) : s \in Assignments(pl)}) : pl \in P})

\* Every penalty is at least 1: the rates per hour, and the rejection penalty
\* (10 in the units of the hangar of main()).
RatesAtLeastOne ==
    /\ \A fi \in Range(f) : params.P_Rej[fi] >= 10 /\ params.P_Arr[fi] >= 1
    /\ \A ai \in Range(a) : params.P_Dep[ai] >= 1

\* C24: in the hangar of main() (150 x 100, epsilon_p = 0.001) with every
\* penalty at least 1, an optimal assignment also minimises the objective
\* without the positioning term.
C24_TieBreakOnly ==
    (status = "OPTIMAL" /\ hangar = ExampleHangar /\ RatesAtLeastOne) =>
        PenaltyCost(sol) = MinPenaltyCost(Placements(Len(a)))

----------------------------------------------------------------------------
(* Separation of movements, rejected requests, feasibility *)

\* Two times are at least epsilon_t apart.
Apart(x, y) == x + epsilon_t <= y \/ y + epsilon_t <= x

\* C25: in every assignment that satisfies the model, the roll-outs of two
\* distinct accepted aircraft are at least epsilon_t apart, so are the
\* roll-ins of two distinct accepted requests, and so are the roll-in of one
\* and the roll-out of the other of two distinct accepted aircraft of which
\* at least one is a request.
C25_MovementsApart ==
    Solved =>
        \A p \in AcceptedPairs :
            /\ Apart(sol[p[1]].Roll_out, sol[p[2]].Roll_out)
            /\ (IsFuture(p[1]) /\ IsFuture(p[2])) =>
                  Apart(sol[p[1]].Roll_in, sol[p[2]].Roll_in)
            /\ (IsFuture(p[1]) \/ IsFuture(p[2])) =>
                  Apart(sol[p[1]].Roll_in, sol[p[2]].Roll_out)

\* Two accepted requests whose roll-ins are exactly epsilon_t apart and whose
\* roll-outs are exactly epsilon_t apart.
C25_Witness ==
    /\ Solved
    /\ \E p \in AcceptedPairs :
          /\ IsFuture(p[1]) /\ IsFuture(p[2])
          /\ sol[p[2]].Roll_in = sol[p[1]].Roll_in + epsilon_t
          /\ sol[p[1]].Roll_out = sol[p[2]].Roll_out + epsilon_t

\* C26: in every assignment that satisfies the model, the position, the
\* roll-in and roll-out times and the delays of a rejected request are 0, and
\* with these values it still is in the constraints that acceptance does not
\* switch off: by e14 every other aircraft rolls out epsilon_t before M_T.
C26_RejectedZero ==
    Solved =>
        \A fi \in Range(f) :
            sol[fi].Accept = 0 =>
                /\ sol[fi].X = 0 /\ sol[fi].Y = 0
                /\ sol[fi].Roll_in = 0 /\ sol[fi].Roll_out = 0
                /\ sol[fi].D_Arr = 0 /\ sol[fi].D_Dep = 0
                /\ \A ai \in Range(a) \ {fi} :
                      /\ e14(ai, fi, sol[ai], sol[fi], 0)
                      /\ ~e14(ai, fi, sol[ai], sol[fi], 1)
                      /\ sol[ai].Roll_out + epsilon_t <= M_T

\* A rejected request that is expected after time 0, beside an aircraft that
\* rolls out late, at the last time e14 leaves it.
C26_Witness ==
    /\ Solved
    /\ \E fi \in Range(f) :
          /\ sol[fi].Accept = 0
          /\ params.ETA[fi] > 0
          /\ \E ai \in Range(a) \ {fi} :
                /\ sol[ai].D_Dep > 0
                /\ sol[ai].Roll_out + epsilon_t = M_T

\* The model of the current aircraft alone is feasible.  Stated for instances
\* with at most one current aircraft, where that model has no pairwise
\* constraint: it is feasible when the aircraft's own constraints are.
CurrentAloneFeasible ==
    /\ Len(c) <= 1
    /\ \A ci \in Range(c) : PlacementValues(ci) # {}

\* A placement rejects every request.
AllRejected(pl) == \A fi \in Range(f) : pl[fi].Accept = 0

\* C27: once the model is built for an instance with requests and ETD >= 0
\* whose current aircraft alone make a feasible model, some assignment that
\* satisfies all constraints rejects every request.
C27_RejectAllFeasible ==
    (/\ pc = "solve"
     /\ f # <<>>
     /\ \A ai \in Range(a) : params.ETD[ai] >= 0
     /\ CurrentAloneFeasible)
        => \E pl \in Placements(Len(a)) : AllRejected(pl)

\* The values the initial conditions give the variables of current aircraft
\* ci that e11-e13 mention.
InitialValues(ci) ==
    [X |-> params.X_init[ci], Y |-> params.Y_init[ci], Roll_in |-> 0,
     Roll_out |-> 0, D_Arr |-> 0, D_Dep |-> 0, Accept |-> 1]

\* Current aircraft ci and dj are less than Buffer apart in x and in y: neither
\* is right of or above the other by Buffer.
Overlapping(ci, dj) ==
    /\ ~(params.X_init[dj] + params.W[dj] + Buffer <= params.X_init[ci])
    /\ ~(params.X_init[ci] + params.W[ci] + Buffer <= params.X_init[dj])
    /\ ~(params.Y_init[dj] + params.L[dj] + Buffer <= params.Y_init[ci])
    /\ ~(params.Y_init[ci] + params.L[ci] + Buffer <= params.Y_init[dj])

\* The pairs of positions of current aircraft, in the order of a.
CurrentPositions ==
    {p \in OrderedPositions : IsCurrent(a[p[1]]) /\ IsCurrent(a[p[2]])}

\* e11-e13 of the pair can be met with OutIn = 0 both ways.
SeparableByE13(ai, bi, va, vb) ==
    \E Right_ab \in 0..1, Right_ba \in 0..1, Above_ab \in 0..1, Above_ba \in 0..1 :
        /\ e11(ai, bi, va, vb, Right_ab) /\ e11(bi, ai, vb, va, Right_ba)
        /\ e12(ai, bi, va, vb, Above_ab) /\ e12(bi, ai, vb, va, Above_ba)
        /\ e13(ai, bi, va, vb, Right_ba, Right_ab, Above_ba, Above_ab, 0, 0)

\* C28: when two current aircraft overlap (less than Buffer apart in x and in
\* y), no assignment satisfies the model, so the solver returns none and
\* never reports OPTIMAL, whatever the requests; when they are Buffer apart in
\* x or in y, e11-e13 of the pair can be met.
C28_OverlapInfeasible ==
    HandedToSolver =>
        \A p \in CurrentPositions :
            IF Overlapping(a[p[1]], a[p[2]])
            THEN ~Solved /\ status # "OPTIMAL"
            ELSE SeparableByE13(a[p[1]], a[p[2]],
                                InitialValues(a[p[1]]), InitialValues(a[p[2]]))

\* The solver has found the model of two overlapping current aircraft and a
\* request infeasible.
C28_Witness ==
    /\ status = "INFEASIBLE"
    /\ f # <<>>
    /\ \E p \in CurrentPositions : Overlapping(a[p[1]], a[p[2]])

----------------------------------------------------------------------------
(* analyze_solution_csv on any report: a solution file with up to MaxRows
   rows.  Only the columns the counts depend on vary; a cell of column
   Accepted may hold any number. *)

MaxRows == 2

AnalyzerRows ==
    {[Aircraft |-> 1, Accepted |-> acc, Width |-> 1, Length |-> 1, ETA |-> 0,
      Roll_In |-> 0, X |-> 1, Y |-> 1, ServT |-> 1, ETD |-> 1, Roll_Out |-> 1,
      D_Arr |-> 0, D_Dep |-> 0, Penalty_Reject |-> rej,
      Penalty_ArrivalDelay |-> arr, Penalty_DepartureDelay |-> 1,
      Hangar_Width |-> 5, Hangar_Length |-> 5] :
        acc \in -1..2, rej \in {0, 2}, arr \in 0..1}

AnalyzerReports == UNION {[1..n -> AnalyzerRows] : n \in 0..MaxRows}

\* The analyzer before it reads the solution file.
InitAnalyze ==
    /\ report \in AnalyzerReports
    /\ pc = "analyze_file"
    /\ metrics = NoMetrics
    /\ raised = NoError
    /\ hangar = SmallHangar
    /\ t1_map = <<>>
    /\ t2 = <<>>
    /\ t3 = <<>>
    /\ c = <<>>
    /\ f = <<>>
    /\ params = NoParams
    /\ base_P_Rej = <<>>
    /\ fidx = 1
    /\ bigm = [M_T |-> 0, M_X |-> 0, M_Y |-> 0]
    /\ status = "LOADED"
    /\ sol = NoSol
    /\ rates = <<>>
    /\ stdout = <<>>
    /\ files = <<>>
    /\ summary = <<>>
    /\ shifts = NoShifts

\* analyze_solution_csv(path): ValueError when the file has no rows, else the
\* metrics.
AnalyzeFile ==
    /\ pc = "analyze_file"
    /\ IF report = <<>>
       THEN /\ raised' = [type |-> "ValueError"]
            /\ pc' = "error"
            /\ UNCHANGED metrics
       ELSE /\ metrics' = analyze_solution_csv(report)
            /\ pc' = "analyzed"
            /\ UNCHANGED raised
    /\ UNCHANGED <<hangar, t1_map, t2, t3, c, f, params, base_P_Rej, fidx, bigm,
                   status, sol, report, rates, stdout, files, summary, shifts>>

NextAnalyze == AnalyzeFile

SpecAnalyze == InitAnalyze /\ [][NextAnalyze]_vars

\* C29: the metrics of a non-empty report satisfy n_current + n_requests =
\* n_total and n_accepted + n_rejected = n_requests; acceptance_rate is
\* n_accepted / n_requests, or 1 when there is no request, and lies between 0
\* and 1; a request row counts as accepted when its Accepted cell is at least
\* 0.5 and as rejected otherwise; an empty report raises ValueError and
\* returns no metrics.
C29_CountInvariants ==
    /\ pc = "analyzed" =>
          /\ report # <<>>
          /\ metrics.n_total = Len(report)
          /\ metrics.n_current + metrics.n_requests = metrics.n_total
          /\ metrics.n_accepted + metrics.n_rejected = metrics.n_requests
          /\ metrics.acceptance_rate =
                IF metrics.n_requests > 0
                THEN <<metrics.n_accepted, metrics.n_requests>> ELSE <<1, 1>>
          /\ 0 <= metrics.acceptance_rate[1]
          /\ metrics.acceptance_rate[1] <= metrics.acceptance_rate[2]
          /\ metrics.n_accepted =
                Cardinality({i \in 1..Len(report) :
                                is_future(report[i]) /\ 2 * report[i].Accepted >= 1})
          /\ metrics.n_rejected =
                Cardinality({i \in 1..Len(report) :
                                is_future(report[i]) /\ 2 * report[i].Accepted < 1})
    /\ (report = <<>> /\ pc # "analyze_file") =>
          pc = "error" /\ raised = [type |-> "ValueError"] /\ metrics = NoMetrics

\* The metrics of a report of two request rows whose Accepted cells are not 0
\* or 1: one above 1, counted as accepted, one below 0, counted as rejected.
C29_Witness ==
    /\ pc = "analyzed"
    /\ \E i, j \in 1..Len(report) :
          /\ is_future(report[i]) /\ report[i].Accepted > 1
          /\ is_future(report[j]) /\ report[j].Accepted < 0
    /\ metrics.n_accepted = 1
    /\ metrics.n_rejected = 1

----------------------------------------------------------------------------
(* compute_roll_shifts of analyze_epst_sensitivity.py: the roll-in and
   roll-out shifts of the solution files of the epsilon_t sweep.  A file is
   named solution_epst_<tag>.csv; files maps a tag to the rows of its file, of
   which read_roll_times reads the columns Aircraft, Roll_In and Roll_Out.
   parse_factor_from_filename of this script gives, for a tag of digits and
   "p", the value the one of the rejection script gives. *)

\* The tags of the factors 0.25, 0.5, 1, 2 and 10.
ShiftTags ==
    {<<"0", "p", "2", "5">>, <<"0", "p", "5">>, <<"1">>, <<"2">>, <<"1", "0">>}

\* Solution files of one aircraft; Roll_In = 0 is a current aircraft.
ShiftRows ==
    {<<[Aircraft |-> 1, Roll_In |-> i, Roll_Out |-> o]>> : i \in 0..1, o \in 1..2}

ShiftDirectories == UNION {[S -> ShiftRows] : S \in SUBSET ShiftTags}

\* read_roll_times: per aircraft of the file, in file order, its times (a
\* file has one row per aircraft).
read_roll_times(rows) ==
    [i \in 1..Len(rows) |->
        [Aircraft |-> rows[i].Aircraft, Roll_In |-> rows[i].Roll_In,
         Roll_Out |-> rows[i].Roll_Out]]

\* The inner loop of compute_roll_shifts from the k-th aircraft of the
\* baseline on: a shift for each aircraft of the baseline that the run has
\* with Roll_In # 0.
RECURSIVE FileShifts(_, _, _, _)
FileShifts(roll, baseline_roll, factor, k) ==
    IF k > Len(baseline_roll) THEN <<>>
    ELSE LET base_times == baseline_roll[k]
             hit == {i \in 1..Len(roll) : roll[i].Aircraft = base_times.Aircraft}
             rest == FileShifts(roll, baseline_roll, factor, k + 1)
         IN IF hit = {} THEN rest
            ELSE LET times == roll[CHOOSE i \in hit : TRUE]
                 IN IF times.Roll_In # 0
                    THEN <<[factor |-> factor,
                            delta_roll_in |-> times.Roll_In - base_times.Roll_In,
                            delta_roll_out |-> times.Roll_Out - base_times.Roll_Out]>>
                            \o rest
                    ELSE rest

\* The outer loop from the i-th path on (for path in paths[1:] starts at the
\* second path).
RECURSIVE PathShifts(_, _, _, _)
PathShifts(dir, paths, baseline_roll, i) ==
    IF i > Len(paths) THEN <<>>
    ELSE FileShifts(read_roll_times(dir[paths[i].file]), baseline_roll,
                    paths[i].factor, 1)
            \o PathShifts(dir, paths, baseline_roll, i + 1)

\* baseline_path = paths[2]: the third path in the order of the factors.
baseline_index == 3

\* compute_roll_shifts(paths) for at least three paths: factors,
\* delta_roll_in, delta_roll_out, baseline_factor.
compute_roll_shifts(dir) ==
    LET found == sorted(DOMAIN dir)
        paths == sort_by_factor(
                    [i \in 1..Len(found) |->
                        [factor |-> parse_factor_from_filename(found[i]),
                         file |-> found[i]]])
        baseline_path == paths[baseline_index]
        baseline_roll == read_roll_times(dir[baseline_path.file])
        out == PathShifts(dir, paths, baseline_roll, 2)
    IN [factors         |-> [k \in 1..Len(out) |-> out[k].factor],
        delta_roll_in   |-> [k \in 1..Len(out) |-> out[k].delta_roll_in],
        delta_roll_out  |-> [k \in 1..Len(out) |-> out[k].delta_roll_out],
        baseline_factor |-> baseline_path.factor]

\* The analysis script before it computes the shifts.
InitShifts ==
    /\ files \in ShiftDirectories
    /\ shifts = NoShifts
    /\ pc = "shift"
    /\ summary = <<>>
    /\ hangar = SmallHangar
    /\ t1_map = <<>>
    /\ t2 = <<>>
    /\ t3 = <<>>
    /\ c = <<>>
    /\ f = <<>>
    /\ params = NoParams
    /\ base_P_Rej = <<>>
    /\ fidx = 1
    /\ bigm = [M_T |-> 0, M_X |-> 0, M_Y |-> 0]
    /\ status = "LOADED"
    /\ sol = NoSol
    /\ report = <<>>
    /\ metrics = NoMetrics
    /\ rates = <<>>
    /\ raised = NoError
    /\ stdout = <<>>

\* compute_roll_shifts(sorted(glob.glob(DEFAULT_PATTERN))): IndexError at
\* paths[2] when fewer than three files match.
ComputeRollShifts ==
    /\ pc = "shift"
    /\ IF Cardinality(DOMAIN files) < baseline_index
       THEN /\ raised' = [type |-> "IndexError"]
            /\ pc' = "error"
            /\ UNCHANGED shifts
       ELSE /\ shifts' = compute_roll_shifts(files)
            /\ pc' = "shifted"
            /\ UNCHANGED raised
    /\ UNCHANGED <<hangar, t1_map, t2, t3, c, f, params, base_P_Rej, fidx, bigm,
                   status, sol, report, metrics, rates, stdout, files, summary>>

NextShifts == ComputeRollShifts

SpecShifts == InitShifts /\ [][NextShifts]_vars

\* The tags of the files of the factor-1 run.
BaselineRuns == {tag \in DOMAIN files : parse_factor_from_filename(tag) = 100}

\* C30: for solution files that include a run of factor 1, compute_roll_shifts
\* returns with that run as its baseline, every shift it returns is the
\* difference to the times of that run, and every other factor whose run
\* moves the aircraft in (Roll_In # 0) has a shift.
C30_BaselineIsFactorOne ==
    (pc # "shift" /\ BaselineRuns # {}) =>
        /\ pc = "shifted"
        /\ shifts.baseline_factor = 100
        /\ \A k \in DOMAIN shifts.factors :
              \E tag \in DOMAIN files : \E base \in BaselineRuns :
                  /\ parse_factor_from_filename(tag) = shifts.factors[k]
                  /\ shifts.delta_roll_in[k]
                        = files[tag][1].Roll_In - files[base][1].Roll_In
                  /\ shifts.delta_roll_out[k]
                        = files[tag][1].Roll_Out - files[base][1].Roll_Out
        /\ \A tag \in DOMAIN files \ BaselineRuns :
              files[tag][1].Roll_In # 0 =>
                  \E k \in DOMAIN shifts.factors :
                      shifts.factors[k] = parse_factor_from_filename(tag)

====
